---- MODULE Spec2Model ----
(***************************************************************************)
(* A model of the twillecke/site repository: the Astro configuration, the  *)
(* constants module, the front matter of the content documents, and the    *)
(* TypeScript programs of the articles (the token bucket of "Handling      *)
(* traffic with rate limiters" and the three isLoaded() programs of        *)
(* "Polling vs Event Listener").                                           *)
(*                                                                         *)
(* Text is modelled as a sequence of one-character strings, so that a path *)
(* a URL or a date is something the model can take apart.                  *)
(***************************************************************************)
EXTENDS Integers, Sequences, FiniteSets, TLC

VARIABLES
  config,        \* the evaluated astro config, or NotLoaded
  consts,        \* the evaluated constants module, or NotLoaded
  entries,       \* per document, the front-matter fields read so far
  now,           \* the wall clock read by new Date(), in ms
  remaining,     \* TokenBucket.remaining
  refilledAt,    \* TokenBucket.refilledAt.getTime()
  capacity,      \* TokenBucket.capacity
  tokensArg,     \* the constructor's tokens argument
  lastOp,        \* the TokenBucket method called last
  afterRefill,   \* remaining just after that method's refill check
  ret,           \* what that method returned
  pPc, pLoaded, pCounter, pTimeout, pInterval, pPromise, pLog,
                 \* the polling program
  oPc, oTimeout, oListeners, oPromise, oEmitted, oLog,
                 \* the once-listener program
  gPc, gTimeout, gListeners, gPromise, gEmitted, gFlag, gLog
                 \* the flag-guarded program

siteVars == <<config, consts, entries>>
bucketVars == <<now, remaining, refilledAt, capacity, tokensArg, lastOp,
                afterRefill, ret>>
pollVars == <<pPc, pLoaded, pCounter, pTimeout, pInterval, pPromise, pLog>>
onceVars == <<oPc, oTimeout, oListeners, oPromise, oEmitted, oLog>>
guardVars == <<gPc, gTimeout, gListeners, gPromise, gEmitted, gFlag, gLog>>
vars == <<siteVars, bucketVars, pollVars, onceVars, guardVars>>

NotLoaded == [loaded |-> FALSE]

(***************************************************************************)
(* The site: configuration, constants, content documents.                  *)
(***************************************************************************)

ConfigSite ==
  <<"h", "t", "t", "p", "s", ":", "/", "/", "t", "w", "i", "l", "l", "e", "c",
    "k", "e", ".", "g", "i", "t", "h", "u", "b", ".", "i", "o", "/">>

\* The base path without its closing separator.
ConfigBaseOpen == <<"/", "s", "i", "t", "e">>

ConfigBase == <<"/", "s", "i", "t", "e", "/">>

ConfigIntegrations == <<"mdx", "sitemap", "tailwind">>

NUM_POSTS_ON_HOMEPAGE == 3

NUM_WORKS_ON_HOMEPAGE == 2

NUM_PROJECTS_ON_HOMEPAGE == 3

\* The link without its scheme.
GithubHrefNoScheme ==
  <<"g", "i", "t", "h", "u", "b", ".", "c", "o", "m", "/", "t", "w", "i", "l",
    "l", "e", "c", "k", "e">>

GithubHref ==
  <<"h", "t", "t", "p", "s", ":", "/", "/", "g", "i", "t", "h", "u", "b", ".",
    "c", "o", "m", "/", "t", "w", "i", "l", "l", "e", "c", "k", "e">>

LinkedinHref ==
  <<"h", "t", "t", "p", "s", ":", "/", "/", "w", "w", "w", ".", "l", "i", "n",
    "k", "e", "d", "i", "n", ".", "c", "o", "m", "/", "i", "n", "/", "t", "h",
    "i", "a", "g", "o", "-", "g", "u", "e", "d", "e", "s", "-", "w", "i", "l",
    "l", "e", "c", "k", "e", "/">>

SOCIALS ==
  << [NAME |-> "github", HREF |-> GithubHref],
     [NAME |-> "linkedin", HREF |-> LinkedinHref] >>

RateLimitersDate == <<"J", "u", "l", " ", "2", "1", " ", "2", "0", "2", "5">>

RateLimitersFrontMatter ==
  << [key |-> "title", quoted |-> TRUE,
       text |-> <<"H", "a", "n", "d", "l", "i", "n", "g", " ", "t", "r", "a",
                 "f", "f", "i", "c", " ", "w", "i", "t", "h", " ", "r", "a",
                 "t", "e", " ", "l", "i", "m", "i", "t", "e", "r", "s">>],
     [key |-> "description", quoted |-> TRUE,
       text |-> <<"A", " ", "T", "y", "p", "e", "S", "c", "r", "i", "p", "t",
                 " ", "i", "m", "p", "l", "e", "m", "e", "n", "t", "a", "t",
                 "i", "o", "n">>],
     [key |-> "date", quoted |-> TRUE,
       text |-> RateLimitersDate],
     [key |-> "draft", quoted |-> FALSE,
       text |-> <<"f", "a", "l", "s", "e">>] >>

AutomatedTestsDate == <<"D", "e", "c", " ", "2", "3", " ", "2", "0", "2", "4">>

AutomatedTestsFrontMatter ==
  << [key |-> "title", quoted |-> TRUE,
       text |-> <<"A", "u", "t", "o", "m", "a", "t", "e", "d", " ", "T", "e",
                 "s", "t", "s">>],
     [key |-> "description", quoted |-> TRUE,
       text |-> <<"W", "h", "a", "t", " ", "a", "r", "e", " ", "a", "u", "t",
                 "o", "m", "a", "t", "e", "d", " ", "t", "e", "s", "t", "s",
                 " ", "a", "n", "d", " ", "w", "h", "y", " ", "s", "h", "o",
                 "u", "l", "d", " ", "y", "o", "u", " ", "i", "m", "p", "l",
                 "e", "m", "e", "n", "t", " ", "t", "h", "e", "m", "?">>],
     [key |-> "date", quoted |-> TRUE,
       text |-> AutomatedTestsDate] >>

PollingDate == <<"J", "a", "n", " ", "0", "4", " ", "2", "0", "2", "5">>

\* The same front matter with the flag written as draft: "false".
PollingFrontMatterQuotedDraft ==
  << [key |-> "title", quoted |-> TRUE,
       text |-> <<"P", "o", "l", "l", "i", "n", "g", " ", "v", "s", " ", "E",
                 "v", "e", "n", "t", " ", "L", "i", "s", "t", "e", "n", "e",
                 "r">>],
     [key |-> "description", quoted |-> TRUE,
       text |-> <<"E", "x", "p", "l", "o", "r", "i", "n", "g", " ", "t", "h",
                 "e", " ", "d", "i", "f", "f", "e", "r", "e", "n", "c", "e",
                 " ", "b", "e", "t", "w", "e", "e", "n", " ", "p", "o", "l",
                 "l", "i", "n", "g", " ", "a", "n", "d", " ", "l", "i", "s",
                 "t", "e", "n", "i", "n", "g", " ", "t", "o", " ", "e", "v",
                 "e", "n", "t", "s">>],
     [key |-> "date", quoted |-> TRUE,
       text |-> PollingDate],
     [key |-> "draft", quoted |-> TRUE,
       text |-> <<"f", "a", "l", "s", "e">>] >>

PollingFrontMatter ==
  << [key |-> "title", quoted |-> TRUE,
       text |-> <<"P", "o", "l", "l", "i", "n", "g", " ", "v", "s", " ", "E",
                 "v", "e", "n", "t", " ", "L", "i", "s", "t", "e", "n", "e",
                 "r">>],
     [key |-> "description", quoted |-> TRUE,
       text |-> <<"E", "x", "p", "l", "o", "r", "i", "n", "g", " ", "t", "h",
                 "e", " ", "d", "i", "f", "f", "e", "r", "e", "n", "c", "e",
                 " ", "b", "e", "t", "w", "e", "e", "n", " ", "p", "o", "l",
                 "l", "i", "n", "g", " ", "a", "n", "d", " ", "l", "i", "s",
                 "t", "e", "n", "i", "n", "g", " ", "t", "o", " ", "e", "v",
                 "e", "n", "t", "s">>],
     [key |-> "date", quoted |-> TRUE,
       text |-> PollingDate],
     [key |-> "draft", quoted |-> FALSE,
       text |-> <<"f", "a", "l", "s", "e">>] >>

\* A date no calendar has.
ShadersDateFebruary30 ==
  <<"F", "e", "b", " ", "3", "0", " ", "2", "0", "2", "5">>

ShadersDate == <<"J", "u", "l", " ", "0", "7", " ", "2", "0", "2", "5">>

ShadersFrontMatter ==
  << [key |-> "title", quoted |-> TRUE,
       text |-> <<"A", "n", " ", "i", "n", "t", "r", "o", "d", "u", "c", "t",
                 "i", "o", "n", " ", "t", "o", " ", "f", "r", "a", "g", "m",
                 "e", "n", "t", " ", "s", "h", "a", "d", "e", "r", "s">>],
     [key |-> "description", quoted |-> TRUE,
       text |-> <<"W", "h", "a", "t", " ", "a", "r", "e", " ", "t", "h", "e",
                 "y", " ", "a", "n", "d", " ", "h", "o", "w", " ", "t", "o",
                 " ", "i", "m", "p", "l", "e", "m", "e", "n", "t", " ", "t",
                 "h", "e", "m">>],
     [key |-> "date", quoted |-> TRUE,
       text |-> ShadersDate],
     [key |-> "draft", quoted |-> FALSE,
       text |-> <<"f", "a", "l", "s", "e">>] >>

Documents == {"rate-limiters", "automated-tests", "polling", "shaders"}

FrontMatter(d) ==
  CASE d = "rate-limiters" -> RateLimitersFrontMatter
    [] d = "automated-tests" -> AutomatedTestsFrontMatter
    [] d = "polling" -> PollingFrontMatter
    [] d = "shaders" -> ShadersFrontMatter

\* A front-matter scalar as YAML reads it: a quoted scalar is a string, the
\* plain scalars true and false are booleans, any other plain scalar a string.
YamlScalar(line) ==
  IF line.quoted
    THEN [type |-> "string", text |-> line.text]
    ELSE IF line.text \in {<<"t", "r", "u", "e">>, <<"f", "a", "l", "s", "e">>}
           THEN [type |-> "boolean", text |-> line.text]
           ELSE [type |-> "string", text |-> line.text]

\* Evaluating the configuration module: export default defineConfig({...}).
LoadConfig ==
  /\ ~config.loaded
  /\ config' = [loaded |-> TRUE, site |-> ConfigSite, base |-> ConfigBase,
                integrations |-> ConfigIntegrations]
  /\ UNCHANGED <<consts, entries>>

\* Evaluating the constants module: SITE and SOCIALS.
LoadConsts ==
  /\ ~consts.loaded
  /\ consts' = [loaded |-> TRUE,
                SITE |-> [NUM_POSTS_ON_HOMEPAGE |-> NUM_POSTS_ON_HOMEPAGE,
                          NUM_WORKS_ON_HOMEPAGE |-> NUM_WORKS_ON_HOMEPAGE,
                          NUM_PROJECTS_ON_HOMEPAGE |-> NUM_PROJECTS_ON_HOMEPAGE],
                SOCIALS |-> SOCIALS]
  /\ UNCHANGED <<config, entries>>

\* Reading the next front-matter line of document d.
ReadFrontMatterLine(d) ==
  /\ Len(entries[d]) < Len(FrontMatter(d))
  /\ LET line == FrontMatter(d)[Len(entries[d]) + 1]
     IN entries' = [entries EXCEPT
                      ![d] = Append(@, [key |-> line.key,
                                        value |-> YamlScalar(line)])]
  /\ UNCHANGED <<config, consts>>

SiteInit ==
  /\ config = NotLoaded
  /\ consts = NotLoaded
  /\ entries = [d \in Documents |-> <<>>]

\* The front matter of d has been read to its closing fence.
Loaded(d) == Len(entries[d]) = Len(FrontMatter(d))

HasField(d, k) == \E i \in 1..Len(entries[d]) : entries[d][i].key = k

Field(d, k) ==
  entries[d][CHOOSE i \in 1..Len(entries[d]) : entries[d][i].key = k].value

(***************************************************************************)
(* Text: what it is for a string to be an absolute URL or a calendar date. *)
(***************************************************************************)
Letters ==
  {"a", "b", "c", "d", "e", "f", "g", "h", "i", "j", "k", "l", "m", "n", "o",
   "p", "q", "r", "s", "t", "u", "v", "w", "x", "y", "z", "A", "B", "C", "D",
   "E", "F", "G", "H", "I", "J", "K", "L", "M", "N", "O", "P", "Q", "R", "S",
   "T", "U", "V", "W", "X", "Y", "Z"}

DigitChars == <<"0", "1", "2", "3", "4", "5", "6", "7", "8", "9">>

IsDigit(c) == \E i \in 1..Len(DigitChars) : DigitChars[i] = c

DigitValue(c) == (CHOOSE i \in 1..Len(DigitChars) : DigitChars[i] = c) - 1

\* The decimal number a non-empty all-digit text writes, -1 for any other text.
RECURSIVE NumberOf(_)
NumberOf(s) ==
  IF s = <<>> \/ \E i \in 1..Len(s) : ~IsDigit(s[i])
    THEN -1
    ELSE IF Len(s) = 1
           THEN DigitValue(s[1])
           ELSE 10 * NumberOf(SubSeq(s, 1, Len(s) - 1)) + DigitValue(s[Len(s)])

\* The text cut at every space, empty pieces included.
RECURSIVE SplitOnSpace(_)
SplitOnSpace(s) ==
  IF \A i \in 1..Len(s) : s[i] # " "
    THEN <<s>>
    ELSE LET i == CHOOSE j \in 1..Len(s) :
                    s[j] = " " /\ \A k \in 1..(j - 1) : s[k] # " "
         IN <<SubSeq(s, 1, i - 1)>> \o SplitOnSpace(SubSeq(s, i + 1, Len(s)))

MonthNames ==
  << <<"J", "a", "n">>, <<"F", "e", "b">>, <<"M", "a", "r">>,
     <<"A", "p", "r">>, <<"M", "a", "y">>, <<"J", "u", "n">>,
     <<"J", "u", "l">>, <<"A", "u", "g">>, <<"S", "e", "p">>,
     <<"O", "c", "t">>, <<"N", "o", "v">>, <<"D", "e", "c">> >>

\* 1..12 for a month name, 0 for any other text.
MonthNumber(s) ==
  IF \E m \in 1..Len(MonthNames) : MonthNames[m] = s
    THEN CHOOSE m \in 1..Len(MonthNames) : MonthNames[m] = s
    ELSE 0

IsLeapYear(y) == y % 4 = 0 /\ (y % 100 # 0 \/ y % 400 = 0)

DaysInMonth(m, y) ==
  IF m = 2 THEN (IF IsLeapYear(y) THEN 29 ELSE 28)
  ELSE IF m \in {4, 6, 9, 11} THEN 30 ELSE 31

\* "Mon DD YYYY": a known month, a day of that month, a year.
IsCalendarDate(s) ==
  LET parts == SplitOnSpace(s)
  IN /\ Len(parts) = 3
     /\ MonthNumber(parts[1]) \in 1..12
     /\ NumberOf(parts[3]) >= 0
     /\ NumberOf(parts[2]) \in 1..DaysInMonth(MonthNumber(parts[1]),
                                               NumberOf(parts[3]))

\* The first place at which "://" starts in s, 0 when there is none.
SchemeEnd(s) ==
  LET at(i) == s[i] = ":" /\ s[i + 1] = "/" /\ s[i + 2] = "/"
      places == {i \in 1..(Len(s) - 2) : at(i)}
  IN IF places = {} THEN 0
     ELSE CHOOSE i \in places : \A j \in places : i <= j

\* The host: what follows "://" up to the next "/", "?" or "#".
RECURSIVE HostFrom(_, _)
HostFrom(s, i) ==
  IF i > Len(s) \/ s[i] \in {"/", "?", "#"}
    THEN <<>>
    ELSE <<s[i]>> \o HostFrom(s, i + 1)

\* A scheme (a letter, then letters, digits, "+", "-", "."), "://", a host.
IsAbsoluteUrl(s) ==
  LET e == SchemeEnd(s)
  IN /\ e > 1
     /\ s[1] \in Letters
     /\ \A i \in 2..(e - 1) : s[i] \in Letters \/ IsDigit(s[i])
                                \/ s[i] \in {"+", "-", "."}
     /\ HostFrom(s, e + 3) # <<>>

(***************************************************************************)
(* The token bucket of "Handling traffic with rate limiters".              *)
(***************************************************************************)
BUCKET_CAPACITY == 5

BUCKET_REFILL_RATE == 5000

\* The clock moves in steps of TickMs, at most MaxJump of them between two
\* readings, up to MaxNow.
TickMs == 2500

MaxJump == 5

MaxNow == 30000

\* How far outside 0..BUCKET_CAPACITY a constructor argument is drawn.
MaxOver == 1

Min(a, b) == IF a <= b THEN a ELSE b

\* refillIfNeeded without the Math.min against the capacity.
refillUncapped(rem, at, cap, t) ==
  LET elapsed == t - at
      intervalsPassed == elapsed \div BUCKET_REFILL_RATE
  IN IF elapsed < BUCKET_REFILL_RATE \/ intervalsPassed <= 0
       THEN [remaining |-> rem, refilledAt |-> at]
       ELSE [remaining |-> rem + intervalsPassed,
             refilledAt |-> at + intervalsPassed * BUCKET_REFILL_RATE]

\* refillIfNeeded, as the bucket it leaves.
refillIfNeeded(rem, at, cap, t) ==
  LET elapsed == t - at
      intervalsPassed == elapsed \div BUCKET_REFILL_RATE
  IN IF elapsed < BUCKET_REFILL_RATE
       THEN [remaining |-> rem, refilledAt |-> at]
       ELSE IF intervalsPassed <= 0
              THEN [remaining |-> rem, refilledAt |-> at]
              ELSE [remaining |-> Min(cap, rem + intervalsPassed),
                    refilledAt |-> at + intervalsPassed * BUCKET_REFILL_RATE]

\* constructor(id, tokens, refilledAt), called at time 0.
Constructed(tokens, at) ==
  /\ now = 0
  /\ remaining = tokens
  /\ refilledAt = at
  /\ capacity = BUCKET_CAPACITY
  /\ tokensArg = tokens
  /\ lastOp = "constructor"
  /\ afterRefill = tokens
  /\ ret = "void"

\* new TokenBucket(id): tokens = BUCKET_CAPACITY, refilledAt = new Date().
BucketInit == Constructed(BUCKET_CAPACITY, 0)

\* new TokenBucket(id, tokens, refilledAt) with any integer count and a
\* timestamp before, at or after the time of the call.
TokenArgs == (0 - MaxOver)..(BUCKET_CAPACITY + MaxOver)

RefilledAtArgs == {0 - 3 * TickMs, 0, 2 * TickMs}

BucketInitAnyArgs ==
  \E tokens \in TokenArgs : \E at \in RefilledAtArgs : Constructed(tokens, at)

\* consumeToken without the test for an available token.
consumeTokenUnguarded ==
  LET b == refillIfNeeded(remaining, refilledAt, capacity, now)
  IN /\ remaining' = b.remaining - 1
     /\ refilledAt' = b.refilledAt
     /\ afterRefill' = b.remaining
     /\ lastOp' = "consumeToken"
     /\ ret' = "void"
     /\ UNCHANGED <<now, capacity, tokensArg>>

consumeToken ==
  LET b == refillIfNeeded(remaining, refilledAt, capacity, now)
  IN /\ remaining' = IF b.remaining > 0 THEN b.remaining - 1 ELSE b.remaining
     /\ refilledAt' = b.refilledAt
     /\ afterRefill' = b.remaining
     /\ lastOp' = "consumeToken"
     /\ ret' = "void"
     /\ UNCHANGED <<now, capacity, tokensArg>>

getTokensLeft ==
  /\ ret' = remaining
  /\ lastOp' = "getTokensLeft"
  /\ UNCHANGED <<now, remaining, refilledAt, capacity, tokensArg, afterRefill>>

hasAvailableTokens ==
  LET b == refillIfNeeded(remaining, refilledAt, capacity, now)
  IN /\ remaining' = b.remaining
     /\ refilledAt' = b.refilledAt
     /\ afterRefill' = b.remaining
     /\ lastOp' = "hasAvailableTokens"
     /\ ret' = (b.remaining > 0)
     /\ UNCHANGED <<now, capacity, tokensArg>>

\* Time passes between two calls.
Tick ==
  /\ \E k \in 1..MaxJump :
       /\ now + k * TickMs <= MaxNow
       /\ now' = now + k * TickMs
  /\ UNCHANGED <<remaining, refilledAt, capacity, tokensArg, lastOp,
                 afterRefill, ret>>

(***************************************************************************)
(* The programs of "Polling vs Event Listener".  A timer callback runs     *)
(* when the event loop is free; a promise is "none" before it is created,  *)
(* then "pending", then "resolved".                                        *)
(***************************************************************************)
\* The polls the model follows while the resource is still loading.
MaxPolls == 3

\* The polling program: main() up to its await.
PollMain ==
  /\ pPc = "init"
  /\ pLog' = Append(pLog, <<"INIT - loaded state: ", pLoaded>>)
  /\ pTimeout' = "pending"
  /\ pPromise' = "pending"
  /\ pInterval' = TRUE
  /\ pPc' = "awaiting"
  /\ UNCHANGED <<pLoaded, pCounter>>

\* startLoading's setTimeout callback.
PollTimeout ==
  /\ pTimeout = "pending"
  /\ pLoaded' = TRUE
  /\ pTimeout' = "fired"
  /\ UNCHANGED <<pPc, pCounter, pInterval, pPromise, pLog>>

\* isLoaded's setInterval callback.
PollInterval ==
  /\ pInterval
  /\ pLoaded \/ pCounter < MaxPolls
  /\ pLog' = Append(pLog, <<"Pooling", pCounter, pLoaded>>)
  /\ pCounter' = pCounter + 1
  /\ IF ~pLoaded
       THEN UNCHANGED <<pPromise, pInterval>>
       ELSE pPromise' = "resolved" /\ pInterval' = FALSE
  /\ UNCHANGED <<pPc, pLoaded, pTimeout>>

\* main() after its await.
PollResume ==
  /\ pPc = "awaiting"
  /\ pPromise = "resolved"
  /\ pLog' = Append(pLog, <<"Loaded!">>)
  /\ pPc' = "end"
  /\ UNCHANGED <<pLoaded, pCounter, pTimeout, pInterval, pPromise>>

PollInit ==
  /\ pPc = "init"
  /\ pLoaded = FALSE
  /\ pCounter = 0
  /\ pTimeout = "unset"
  /\ pInterval = FALSE
  /\ pPromise = "none"
  /\ pLog = <<>>

\* The once-listener program.  main() calls startLoading() and then awaits
\* isLoaded(); the resource may finish loading before isLoaded() is reached
\* (the article's fast connection), so the timer callback may run between.
OnceStartLoading ==
  /\ oPc = "init"
  /\ oLog' = Append(oLog, "INIT")
  /\ oTimeout' = "pending"
  /\ oPc' = "started"
  /\ UNCHANGED <<oListeners, oPromise, oEmitted>>

\* isLoaded() over an emitter that replays an event already emitted.
OnceIsLoadedReplay ==
  /\ oPc = "started"
  /\ oLog' = Append(oLog, "Check loaded")
  /\ IF oEmitted # "no"
       THEN oPromise' = "resolved" /\ UNCHANGED oListeners
       ELSE oPromise' = "pending" /\ oListeners' = oListeners + 1
  /\ oPc' = "awaiting"
  /\ UNCHANGED <<oTimeout, oEmitted>>

\* isLoaded(): eventEmitter.once("loaded", resolve).
OnceIsLoaded ==
  /\ oPc = "started"
  /\ oLog' = Append(oLog, "Check loaded")
  /\ oPromise' = "pending"
  /\ oListeners' = oListeners + 1
  /\ oPc' = "awaiting"
  /\ UNCHANGED <<oTimeout, oEmitted>>

\* startLoading's setTimeout callback: eventEmitter.emit("loaded") calls the
\* listeners registered by then and drops the once-listeners; with none
\* registered the event is lost.
OnceTimeout ==
  /\ oTimeout = "pending"
  /\ oTimeout' = "fired"
  /\ IF oListeners > 0
       THEN /\ oPromise' = "resolved"
            /\ oListeners' = 0
            /\ oEmitted' = "delivered"
       ELSE /\ oEmitted' = "lost"
            /\ UNCHANGED <<oPromise, oListeners>>
  /\ UNCHANGED <<oPc, oLog>>

OnceResume ==
  /\ oPc = "awaiting"
  /\ oPromise = "resolved"
  /\ oLog' = Append(oLog, "END")
  /\ oPc' = "end"
  /\ UNCHANGED <<oTimeout, oListeners, oPromise, oEmitted>>

OnceInit ==
  /\ oPc = "init"
  /\ oTimeout = "unset"
  /\ oListeners = 0
  /\ oPromise = "none"
  /\ oEmitted = "no"
  /\ oLog = <<>>

\* The flag-guarded program.  The source names both the flag and the
\* function isLoaded; here the flag is gFlag.
GuardStartLoading ==
  /\ gPc = "init"
  /\ gLog' = Append(gLog, "INIT")
  /\ gTimeout' = "pending"
  /\ gPc' = "started"
  /\ UNCHANGED <<gListeners, gPromise, gEmitted, gFlag>>

\* isLoaded(): if (isLoaded) return resolve(); eventEmitter.once(...).
GuardIsLoaded ==
  /\ gPc = "started"
  /\ gLog' = Append(gLog, "Check loaded")
  /\ IF gFlag
       THEN gPromise' = "resolved" /\ UNCHANGED gListeners
       ELSE gPromise' = "pending" /\ gListeners' = gListeners + 1
  /\ gPc' = "awaiting"
  /\ UNCHANGED <<gTimeout, gEmitted, gFlag>>

\* startLoading's setTimeout callback: eventEmitter.emit("loaded"), and
\* nothing else.
GuardTimeout ==
  /\ gTimeout = "pending"
  /\ gTimeout' = "fired"
  /\ IF gListeners > 0
       THEN /\ gPromise' = "resolved"
            /\ gListeners' = 0
            /\ gEmitted' = "delivered"
       ELSE /\ gEmitted' = "lost"
            /\ UNCHANGED <<gPromise, gListeners>>
  /\ UNCHANGED <<gPc, gFlag, gLog>>

GuardResume ==
  /\ gPc = "awaiting"
  /\ gPromise = "resolved"
  /\ gLog' = Append(gLog, "END")
  /\ gPc' = "end"
  /\ UNCHANGED <<gTimeout, gListeners, gPromise, gEmitted, gFlag>>

GuardInit ==
  /\ gPc = "init"
  /\ gTimeout = "unset"
  /\ gListeners = 0
  /\ gPromise = "none"
  /\ gEmitted = "no"
  /\ gFlag = FALSE
  /\ gLog = <<>>

(***************************************************************************)
(* Specifications: each part on its own, and all of them together.         *)
(***************************************************************************)
EventsInit == PollInit /\ OnceInit /\ GuardInit

Init == SiteInit /\ BucketInit /\ EventsInit

InitAnyArgs == SiteInit /\ BucketInitAnyArgs /\ EventsInit

\* What a step of one part leaves alone.
SiteOnly == UNCHANGED <<bucketVars, pollVars, onceVars, guardVars>>

BucketOnly == UNCHANGED <<siteVars, pollVars, onceVars, guardVars>>

PollOnly == UNCHANGED <<siteVars, bucketVars, onceVars, guardVars>>

OnceOnly == UNCHANGED <<siteVars, bucketVars, pollVars, guardVars>>

GuardOnly == UNCHANGED <<siteVars, bucketVars, pollVars, onceVars>>

SiteStep ==
  \/ LoadConfig /\ SiteOnly
  \/ LoadConsts /\ SiteOnly
  \/ \E d \in Documents : ReadFrontMatterLine(d) /\ SiteOnly

BucketStep ==
  \/ consumeToken /\ BucketOnly
  \/ getTokensLeft /\ BucketOnly
  \/ hasAvailableTokens /\ BucketOnly
  \/ Tick /\ BucketOnly

EventsStep ==
  \/ PollMain /\ PollOnly
  \/ PollTimeout /\ PollOnly
  \/ PollInterval /\ PollOnly
  \/ PollResume /\ PollOnly
  \/ OnceStartLoading /\ OnceOnly
  \/ OnceIsLoaded /\ OnceOnly
  \/ OnceTimeout /\ OnceOnly
  \/ OnceResume /\ OnceOnly
  \/ GuardStartLoading /\ GuardOnly
  \/ GuardIsLoaded /\ GuardOnly
  \/ GuardTimeout /\ GuardOnly
  \/ GuardResume /\ GuardOnly

Next == SiteStep \/ BucketStep \/ EventsStep

Spec == Init /\ [][Next]_vars

SpecSite == Init /\ [][SiteStep]_vars

SpecBucket == Init /\ [][BucketStep]_vars

SpecBucketAnyArgs == InitAnyArgs /\ [][BucketStep]_vars

SpecEvents == Init /\ [][EventsStep]_vars

(***************************************************************************)
(* Claims.                                                                 *)
(***************************************************************************)
\* C1: the configured base path is a non-empty string whose first and last
\* characters are both the path separator "/".
C1_BaseDelimited ==
  config.loaded =>
    /\ config.base # <<>>
    /\ config.base[1] = "/"
    /\ config.base[Len(config.base)] = "/"

\* C1 witness: the configuration is loaded and its base path has a first and
\* a last character that are different places.
C1_ConfigLoaded == config.loaded /\ Len(config.base) > 1

\* C2: the HREF of every entry of SOCIALS is an absolute URL: a scheme, then
\* "://", then a non-empty host.
C2_SocialsAbsolute ==
  consts.loaded =>
    \A i \in 1..Len(consts.SOCIALS) : IsAbsoluteUrl(consts.SOCIALS[i].HREF)

\* C2 witness: the constants are loaded and SOCIALS holds its two entries.
C2_SocialsLoaded == consts.loaded /\ Len(consts.SOCIALS) = 2

\* C4: the date field of every content document parses as a calendar date:
\* a known month, a day that exists in that month, and a year.
C4_DatesParse ==
  \A d \in Documents :
    HasField(d, "date") =>
      /\ Field(d, "date").type = "string"
      /\ IsCalendarDate(Field(d, "date").text)

\* C4 witness: the date of every document has been read.
C4_AllDatesRead == \A d \in Documents : HasField(d, "date")

\* C5: every content document carries title, description and date, each
\* present and non-empty; draft is optional and, when present, a boolean.
C5_FrontMatterShape ==
  \A d \in Documents :
    Loaded(d) =>
      /\ \A k \in {"title", "description", "date"} :
           /\ HasField(d, k)
           /\ Field(d, k).type = "string"
           /\ Field(d, k).text # <<>>
      /\ HasField(d, "draft") => Field(d, "draft").type = "boolean"

\* C5 witness: every document is read, one of them without a draft field
\* and one of them with it.
C5_AllRead ==
  /\ \A d \in Documents : Loaded(d)
  /\ \E d \in Documents : ~HasField(d, "draft")
  /\ \E d \in Documents : HasField(d, "draft")

\* C7 as stated: whatever the constructor's arguments, the remaining tokens
\* are at least 0 and at most BUCKET_CAPACITY.
C7_RemainingInRangeAnyArgs == remaining \in 0..BUCKET_CAPACITY

\* C7 as amended: for a bucket constructed with a token count in
\* 0..BUCKET_CAPACITY (and any refilledAt), the remaining tokens are at
\* least 0 and at most BUCKET_CAPACITY after any calls and any passage of
\* time.
C7_RemainingInRange ==
  tokensArg \in 0..BUCKET_CAPACITY => remaining \in 0..BUCKET_CAPACITY

\* C7 witness: a bucket constructed part full whose refill, several
\* intervals later, stopped at the capacity.
C7_RefillStoppedAtCapacity ==
  /\ tokensArg \in 1..(BUCKET_CAPACITY - 1)
  /\ lastOp = "hasAvailableTokens"
  /\ now >= BUCKET_CAPACITY * BUCKET_REFILL_RATE
  /\ afterRefill = BUCKET_CAPACITY
  /\ remaining = BUCKET_CAPACITY

\* C8: in the flag-guarded program the promise of isLoaded() is resolved in
\* both orders: once isLoaded() has been called and the event emitted, in
\* either order, the promise is resolved.
C8_ResolvedInBothOrders ==
  (gPromise # "none" /\ gEmitted # "no") => gPromise = "resolved"

\* C9: in the once-listener program, an event emitted before isLoaded() has
\* registered its listener leaves the promise unresolved from then on, and
\* main() never gets past its await.
C9_LostEventNeverResolves ==
  oEmitted = "lost" => (oPromise # "resolved" /\ oPc # "end")

\* C9 witness: the event was emitted with no listener, and isLoaded() has
\* registered its listener since.
C9_ListenerAfterEvent ==
  oEmitted = "lost" /\ oPromise = "pending" /\ oListeners = 1

\* C10: consumeToken, after the refill check, takes exactly one token when
\* one is available and leaves the remaining tokens at 0 when none is;
\* hasAvailableTokens returns true exactly when, after the refill check,
\* remaining is greater than 0, and takes no token.
C10_ConsumeAndHas ==
  /\ lastOp = "consumeToken" =>
       remaining = IF afterRefill > 0 THEN afterRefill - 1 ELSE 0
  /\ lastOp = "hasAvailableTokens" =>
       /\ ret = (afterRefill > 0)
       /\ remaining = afterRefill

\* C10 witness: a request dropped by consumeToken on an empty bucket.
C10_RequestDropped ==
  lastOp = "consumeToken" /\ afterRefill = 0 /\ remaining = 0

\* C11: a refill check (the one consumeToken and hasAvailableTokens start
\* with) that runs on a full bucket changes neither the remaining tokens
\* nor refilledAt, however much time has elapsed.
C11_FullBucketRefillDoesNothing ==
  [][(/\ remaining = capacity
      /\ now' = now
      /\ lastOp' \in {"consumeToken", "hasAvailableTokens"})
     => (afterRefill' = remaining /\ refilledAt' = refilledAt)]_vars

====
